---- MODULE Spec2Model ----
(***************************************************************************)
(* HMPI prediction service: the feature assembly of                        *)
(* backend/predictor.py (HMPIPredictor.build_features and its four         *)
(* try/fallback helpers) and the HTTP front end of backend/app.py          *)
(* (start-up load, POST /api/predict, the login-gated pages).              *)
(*                                                                         *)
(* Numbers.  Every Python number is a fixed-point integer in tenths:       *)
(* 5.0 km is 50, latitude 28.6 is 286, the integer 1 is 10.  A Python      *)
(* value is a tagged record, so that None and strings can be told from     *)
(* numbers: PyNum(n), PyNone, PyStr(s).                                    *)
(***************************************************************************)
EXTENDS Integers, Sequences, FiniteSets, TLC

VARIABLES
    predictor,     \* backend/app.py global: None or the loaded pipeline
    loads,         \* history: how many times HMPIPredictor.__init__ ran
    pc,            \* where the server is: boot, idle, or inside one prediction
    data,          \* what request.get_json() gave for the request in hand
    lat, lon,      \* the converted coordinates of the request in hand
    fetched,       \* values of the dict literal evaluated so far (in order)
    resp,          \* history: the outcome of each source call of this build
    issued,        \* history: requests issued to each source in this build
    features,      \* the dict `features` of build_features, once complete
    X,             \* the aligned one-row frame handed to model.predict
    response,      \* the HTTP response of the request in hand, once sent
    responded,     \* history: responses sent for the request in hand
    lastFallback,  \* history: the last earlier build made with every source down
    session,       \* the Flask session of one browser: the set of its keys
    trail,         \* history: the page requests of that session, oldest first
    page,          \* what the last page request was answered with
    nq,            \* input of the stand-alone _get_nearest_distance run
    nres           \* its result

apiVars   == <<predictor, loads, pc, data, lat, lon, fetched, resp, issued,
               features, X, response, responded, lastFallback>>
loginVars == <<session, trail, page>>
fnVars    == <<nq, nres>>
vars      == <<apiVars, loginVars, fnVars>>

-----------------------------------------------------------------------------
(* Python values *)

PyNum(n) == [tag |-> "num", n |-> n]
PyNone   == [tag |-> "None"]
PyStr(s) == [tag |-> "str", s |-> s]

IsNumber(v) == v.tag = "num"

\* The outcome of a call that raised instead of returning.
Raised == [tag |-> "raise"]

\* Absent: a variable that holds nothing yet.
Nothing == [tag |-> "nothing"]

-----------------------------------------------------------------------------
(* predictor.py: DEFAULTS and the feature names *)

DistanceKeys == << "dist_to_nearest_industrial_area_km",
                   "dist_to_nearest_drain_outfall_km",
                   "dist_to_nearest_landfill_km",
                   "dist_to_nearest_major_highway_km" >>

DEFAULTS ==
    [ dist_to_nearest_industrial_area_km |-> PyNum(50),
      dist_to_nearest_drain_outfall_km   |-> PyNum(20),
      dist_to_nearest_landfill_km        |-> PyNum(80),
      dist_to_nearest_major_highway_km   |-> PyNum(30),
      annual_precip_mm                   |-> PyNum(11000),
      population_density_per_km2         |-> PyNum(4500),
      elevation_m                        |-> PyNum(2500),
      land_use_category_estuary          |-> PyNum(0),
      soil_type_clay                     |-> PyNum(10) ]

\* The order in which the dict literal of build_features evaluates its calls.
CallOrder == DistanceKeys \o << "annual_precip_mm",
                                "population_density_per_km2",
                                "elevation_m" >>

ExternalKeys == { CallOrder[i] : i \in 1..Len(CallOrder) }

-----------------------------------------------------------------------------
(* _get_nearest_distance *)

KmPerDegree == 111

RECURSIVE SqrtIter(_, _)
SqrtIter(n, x) ==
    LET y == (x + (n \div x)) \div 2
    IN  IF y >= x THEN x ELSE SqrtIter(n, y)

\* floor of the square root
ISqrt(n) == IF n = 0 THEN 0 ELSE SqrtIter(n, n)

\* Point(lon, lat).distance(Point(lon2, lat2)) * 111, coordinates in tenths of
\* a degree, the result in tenths of a kilometre.
Distance111(plat, plon, lat2, lon2) ==
    ISqrt(KmPerDegree * KmPerDegree *
          ((plon - lon2) * (plon - lon2) + (plat - lat2) * (plat - lat2)))

\* for elem in ...: if "lat" in elem and "lon" in elem: coords.append(...)
RECURSIVE Coords(_)
Coords(elements) ==
    IF elements = <<>> THEN <<>>
    ELSE LET elem == Head(elements)
         IN  (IF "lat" \in DOMAIN elem /\ "lon" \in DOMAIN elem
              THEN << <<elem.lat, elem.lon>> >>
              ELSE <<>>) \o Coords(Tail(elements))

\* Faulty variant of Min: the first feature found, not the nearest.
First(s) == s[1]

\* min(distances) of a non-empty list
RECURSIVE Min(_)
Min(s) ==
    IF Len(s) = 1 THEN s[1]
    ELSE LET m == Min(Tail(s)) IN IF s[1] <= m THEN s[1] ELSE m

\* r is the outcome of requests.get(...) followed by r.json(): kind "error"
\* when either raised, else kind "json" with the decoded dict in r.data.
_get_nearest_distance(plat, plon, r, fallback_key) ==
    IF r.kind = "error" THEN DEFAULTS[fallback_key]
    ELSE LET elements == IF "elements" \in DOMAIN r.data
                         THEN r.data.elements ELSE <<>>
             coords == Coords(elements)
         IN  IF coords = <<>> THEN DEFAULTS[fallback_key]
             ELSE PyNum(Min([ i \in 1..Len(coords) |->
                      Distance111(plat, plon, coords[i][1], coords[i][2]) ]))

-----------------------------------------------------------------------------
(* _get_elevation, _get_rainfall, _get_population_density *)

\* Faulty variant of _get_elevation: no try/except, so a failed call raises
\* out of the helper.
_get_elevation_unguarded(plat, plon, r) ==
    IF r.kind = "error" THEN Raised
    ELSE IF "results" \notin DOMAIN r.data THEN Raised
    ELSE IF Len(r.data.results) = 0 THEN Raised
    ELSE IF "elevation" \notin DOMAIN r.data.results[1] THEN Raised
    ELSE r.data.results[1].elevation

\* r['results'][0]['elevation']; a missing key or an empty list raises inside
\* the try and gives the default.
_get_elevation(plat, plon, r) ==
    IF r.kind = "error" THEN DEFAULTS["elevation_m"]
    ELSE IF "results" \notin DOMAIN r.data THEN DEFAULTS["elevation_m"]
    ELSE IF Len(r.data.results) = 0 THEN DEFAULTS["elevation_m"]
    ELSE IF "elevation" \notin DOMAIN r.data.results[1]
         THEN DEFAULTS["elevation_m"]
    ELSE r.data.results[1].elevation

\* Faulty variant of _get_rainfall: the except branch returns the constant of
\* another feature.
_get_rainfall_wrong_default(plat, plon, r) ==
    IF r.kind = "error" THEN DEFAULTS["elevation_m"]
    ELSE IF "properties" \notin DOMAIN r.data THEN DEFAULTS["elevation_m"]
    ELSE IF "parameter" \notin DOMAIN r.data.properties
         THEN DEFAULTS["elevation_m"]
    ELSE IF "PRECTOT" \notin DOMAIN r.data.properties.parameter
         THEN DEFAULTS["elevation_m"]
    ELSE IF "ANN" \notin DOMAIN r.data.properties.parameter.PRECTOT
         THEN DEFAULTS["elevation_m"]
    ELSE r.data.properties.parameter.PRECTOT.ANN

\* r['properties']['parameter']['PRECTOT']['ANN']
_get_rainfall(plat, plon, r) ==
    IF r.kind = "error" THEN DEFAULTS["annual_precip_mm"]
    ELSE IF "properties" \notin DOMAIN r.data THEN DEFAULTS["annual_precip_mm"]
    ELSE IF "parameter" \notin DOMAIN r.data.properties
         THEN DEFAULTS["annual_precip_mm"]
    ELSE IF "PRECTOT" \notin DOMAIN r.data.properties.parameter
         THEN DEFAULTS["annual_precip_mm"]
    ELSE IF "ANN" \notin DOMAIN r.data.properties.parameter.PRECTOT
         THEN DEFAULTS["annual_precip_mm"]
    ELSE r.data.properties.parameter.PRECTOT.ANN

\* r is the outcome of rasterio.open(...) and src.sample([(lon, lat)]): kind
\* "error" when either raised, else kind "samples" with the sampled band
\* arrays in r.vals.  The loop returns on its first sample; with no sample
\* the function ends without a return statement, which gives None.
_get_population_density(plat, plon, r) ==
    IF r.kind = "error" THEN DEFAULTS["population_density_per_km2"]
    ELSE IF Len(r.vals) = 0 THEN PyNone
    ELSE PyNum(r.vals[1][1])

-----------------------------------------------------------------------------
(* What the external sources can answer *)

Err == [kind |-> "error"]
Json(d) == [kind |-> "json", data |-> d]

Node(nlat, nlon) == [type |-> "node", lat |-> nlat, lon |-> nlon]
\* "out center" of a way: the coordinates are nested under "center"
Way(nlat, nlon)  == [type |-> "way", center |-> [lat |-> nlat, lon |-> nlon]]

OverpassResponses ==
    { Err,
      Json([elements |-> << Way(287, 772) >>]),
      Json([elements |-> << Node(290, 775), Way(286, 772), Node(287, 772) >>]) }

ElevationResponses ==
    { Err,
      Json([results |-> << [elevation |-> PyNum(2160)] >>]),
      Json([results |-> << [elevation |-> PyNone] >>]),
      Json([results |-> << [latitude |-> PyNum(286)] >>]) }

RainfallResponses ==
    { Err,
      Json([properties |-> [parameter |-> [PRECTOT |-> [ANN |-> PyNum(7900)]]]]),
      Json([properties |-> [parameter |-> [PRECTOT |-> [ANN |-> PyNone]]]]),
      Json([properties |-> [parameter |-> [T2M |-> [ANN |-> PyNum(250)]]]]) }

RasterResponses ==
    { Err,
      [kind |-> "samples", vals |-> << >>],
      [kind |-> "samples", vals |-> << <<3820>> >>] }

Responses(key) ==
    IF key = "elevation_m" THEN ElevationResponses
    ELSE IF key = "annual_precip_mm" THEN RainfallResponses
    ELSE IF key = "population_density_per_km2" THEN RasterResponses
    ELSE OverpassResponses

-----------------------------------------------------------------------------
(* The training column list, as joblib.load(columns_path) gives it *)

\* train_model.py: numeric_features, then the get_dummies columns
TrainingColumns ==
    << "latitude", "longitude" >> \o CallOrder \o
    << "land_use_category_estuary", "soil_type_clay" >>

\* another training run: other dummy columns, one numeric feature dropped
OtherColumns ==
    << "longitude", "latitude",
       "dist_to_nearest_industrial_area_km", "dist_to_nearest_drain_outfall_km",
       "dist_to_nearest_landfill_km", "dist_to_nearest_major_highway_km",
       "population_density_per_km2", "elevation_m",
       "land_use_category_urban", "soil_type_clay", "soil_type_sandy" >>

ColumnLists == { TrainingColumns, OtherColumns }

-----------------------------------------------------------------------------
(* HMPIPredictor.build_features *)

\* The helper behind each key of the dict literal.
Fetch(key, plat, plon, r) ==
    IF key = "annual_precip_mm" THEN _get_rainfall(plat, plon, r)
    ELSE IF key = "population_density_per_km2"
         THEN _get_population_density(plat, plon, r)
    ELSE IF key = "elevation_m" THEN _get_elevation(plat, plon, r)
    ELSE _get_nearest_distance(plat, plon, r, key)

AssembledKeys ==
    { "latitude", "longitude", "land_use_category_estuary", "soil_type_clay" }
        \cup ExternalKeys

\* Faulty variant of Evaluate: one try/except around the whole literal, so a
\* failed call puts every value obtained so far on its fallback as well.
EvaluateSharedFallback(vals, key, plat, plon, r) ==
    [ k \in DOMAIN vals \cup {key} |->
        IF r.kind = "error" THEN DEFAULTS[k]
        ELSE IF k = key THEN Fetch(key, plat, plon, r) ELSE vals[k] ]

\* One call of the dict literal returns: vals, the values the calls before it
\* returned (by key), gains the value of `key`.
Evaluate(vals, key, plat, plon, r) ==
    [ k \in DOMAIN vals \cup {key} |->
        IF k = key THEN Fetch(key, plat, plon, r) ELSE vals[k] ]

\* Faulty variant of FeatureDict: the two indicator entries take each other's
\* constant.
FeatureDictSwapped(plat, plon, vals) ==
    [ k \in AssembledKeys |->
        IF k = "latitude" THEN PyNum(plat)
        ELSE IF k = "longitude" THEN PyNum(plon)
        ELSE IF k = "land_use_category_estuary" THEN DEFAULTS["soil_type_clay"]
        ELSE IF k = "soil_type_clay" THEN DEFAULTS["land_use_category_estuary"]
        ELSE vals[k] ]

\* features = { ... }: vals[k] is the value the call for key k returned
FeatureDict(plat, plon, vals) ==
    [ k \in AssembledKeys |->
        IF k = "latitude" THEN PyNum(plat)
        ELSE IF k = "longitude" THEN PyNum(plon)
        ELSE IF k = "land_use_category_estuary"
             THEN DEFAULTS["land_use_category_estuary"]
        ELSE IF k = "soil_type_clay" THEN DEFAULTS["soil_type_clay"]
        ELSE vals[k] ]

\* Faulty variant of AlignColumns: the columns the assembly did not produce
\* are left out instead of being filled with 0.
AlignColumnsNoFill(feats, feature_columns) ==
    LET present == SelectSeq(feature_columns, LAMBDA c : c \in DOMAIN feats)
    IN  [ i \in 1..Len(present) |-> [ col |-> present[i], val |-> feats[present[i]] ] ]

\* for col in self.feature_columns: if col not in df.columns: df[col] = 0
\* return df[self.feature_columns]
AlignColumns(feats, feature_columns) ==
    [ i \in 1..Len(feature_columns) |->
        [ col |-> feature_columns[i],
          val |-> IF feature_columns[i] \in DOMAIN feats
                  THEN feats[feature_columns[i]] ELSE PyNum(0) ] ]

-----------------------------------------------------------------------------
(* backend/app.py: what a POST /api/predict can carry *)

PyDict(f) == [tag |-> "dict", items |-> f]
PyList(q) == [tag |-> "list", items |-> q]

LatitudeValues  == { PyNum(286), PyStr("19.1"), PyStr("north"), PyNone }
LongitudeValues == { PyNum(772), PyStr("east") }

\* What request.get_json() gives: it raises on a body that is not JSON, else
\* it gives the decoded JSON value (None for null).
Bodies ==
    { Raised, PyNone, PyNum(0), PyNum(50),
      PyList(<< >>), PyList(<< PyStr("latitude") >>),
      PyDict([k \in {} |-> PyNone]),
      PyDict([k \in {"latitude"} |-> PyNum(286)]),
      PyDict([k \in {"longitude"} |-> PyNum(772)]) }
    \cup { PyDict([k \in {"latitude", "longitude"} |->
                     IF k = "latitude" THEN a ELSE b]) :
           a \in LatitudeValues, b \in LongitudeValues }

\* bool(data)
Truthy(v) ==
    IF v.tag = "None" THEN FALSE
    ELSE IF v.tag = "num" THEN v.n # 0
    ELSE IF v.tag = "dict" THEN DOMAIN v.items # {}
    ELSE IF v.tag = "list" THEN Len(v.items) > 0
    ELSE TRUE

\* `key in data` raises TypeError when data is a number
CanContain(v) == v.tag \in {"dict", "list"}

\* key in data
Contains(v, key) ==
    IF v.tag = "dict" THEN key \in DOMAIN v.items
    ELSE \E i \in 1..Len(v.items) : v.items[i] = PyStr(key)

\* float(text) of the strings a body carries here
ParseFloat(text) ==
    IF text = "19.1" THEN PyNum(191)
    ELSE IF text = "28.6" THEN PyNum(286)
    ELSE Raised

\* float(v): PyNum, or Raised (ValueError on a non-numeric string,
\* TypeError on None)
ToFloat(v) ==
    IF v.tag = "num" THEN v
    ELSE IF v.tag = "str" THEN ParseFloat(v.s)
    ELSE Raised

\* The part of predict_hmpi from request.get_json() to the call of
\* predictor.get_prediction: "400", "500", or "predict" when the call is made.
Screen(body) ==
    IF body = Raised THEN "500"
    ELSE IF ~Truthy(body) THEN "400"
    ELSE IF ~CanContain(body) THEN "500"
    ELSE IF ~Contains(body, "latitude") \/ ~Contains(body, "longitude")
         THEN "400"
    ELSE IF body.tag # "dict" THEN "500"
    ELSE IF ToFloat(body.items["latitude"]) = Raised THEN "500"
    ELSE IF ToFloat(body.items["longitude"]) = Raised THEN "500"
    ELSE "predict"

ErrorResponse(code, msg) == [status |-> code, error |-> msg]

\* except Exception as e: ..., 500; the message carries str(e), here the
\* place the exception came from: the request, a source helper, the model
PredictionFailed(origin) == [status |-> 500, error |-> "Prediction failed", from |-> origin]

\* what model.predict(X)[0] can be, in thousandths; the model is external
ModelOutputs == { 73455, 73465 }

\* round(float(p), 2): thousandths to hundredths, ties to even
Round2(p) ==
    LET q == p \div 10
        r == p % 10
    IN  IF r > 5 \/ (r = 5 /\ q % 2 = 1) THEN q + 1 ELSE q

NoCalls == [k \in ExternalKeys |-> 0]

NoVals == [k \in {} |-> PyNone]

-----------------------------------------------------------------------------
(* The service: start-up and POST /api/predict *)

InitApi ==
    /\ predictor = Nothing
    /\ loads = 0
    /\ pc = "boot"
    /\ data = Nothing
    /\ lat = Nothing
    /\ lon = Nothing
    /\ fetched = NoVals
    /\ resp = NoVals
    /\ issued = NoCalls
    /\ features = Nothing
    /\ X = Nothing
    /\ response = Nothing
    /\ responded = 0
    /\ lastFallback = Nothing

\* backend/app.py, module level: try: predictor = HMPIPredictor(...)
\* except Exception: predictor = None
LoadPredictor ==
    /\ pc = "boot"
    /\ \/ \E cols \in ColumnLists :
            predictor' = [tag |-> "HMPIPredictor", feature_columns |-> cols]
       \/ predictor' = PyNone
    /\ loads' = loads + 1
    /\ pc' = "idle"
    /\ UNCHANGED <<data, lat, lon, fetched, resp, issued, features, X,
                   response, responded, lastFallback>>
    /\ UNCHANGED <<loginVars, fnVars>>

\* The locals of the request before are gone when a request arrives.
FreshRequest ==
    /\ fetched' = NoVals
    /\ resp' = NoVals
    /\ issued' = NoCalls
    /\ features' = Nothing
    /\ X' = Nothing

\* Faulty variant of PredictUnavailable: the load is tried again when a
\* request finds no predictor.
PredictUnavailableReload ==
    /\ pc = "idle"
    /\ predictor = PyNone
    /\ FreshRequest
    /\ data' = Nothing
    /\ lat' = Nothing
    /\ lon' = Nothing
    /\ \E cols \in ColumnLists :
          predictor' = [tag |-> "HMPIPredictor", feature_columns |-> cols]
    /\ loads' = loads + 1
    /\ response' = ErrorResponse(500, "Predictor pipeline not available on server.")
    /\ responded' = 1
    /\ UNCHANGED <<pc, lastFallback>>
    /\ UNCHANGED <<loginVars, fnVars>>

\* predict_hmpi: if predictor is None: return ..., 500
PredictUnavailable ==
    /\ pc = "idle"
    /\ predictor = PyNone
    /\ FreshRequest
    /\ data' = Nothing
    /\ lat' = Nothing
    /\ lon' = Nothing
    /\ response' = ErrorResponse(500, "Predictor pipeline not available on server.")
    /\ responded' = 1
    /\ UNCHANGED <<predictor, loads, pc, lastFallback>>
    /\ UNCHANGED <<loginVars, fnVars>>

\* predict_hmpi: the request is answered before get_prediction is called
PredictRejected ==
    /\ pc = "idle"
    /\ predictor # PyNone
    /\ \E body \in Bodies :
        /\ Screen(body) # "predict"
        /\ data' = body
        /\ response' = IF Screen(body) = "400"
                       THEN ErrorResponse(400, "Missing latitude or longitude in request.")
                       ELSE PredictionFailed("request")
    /\ FreshRequest
    /\ lat' = Nothing
    /\ lon' = Nothing
    /\ responded' = 1
    /\ UNCHANGED <<predictor, loads, pc, lastFallback>>
    /\ UNCHANGED <<loginVars, fnVars>>

\* predict_hmpi: lat = float(...); lon = float(...);
\* predictor.get_prediction(lat, lon) is entered
PredictAccepted ==
    /\ pc = "idle"
    /\ predictor # PyNone
    /\ \E body \in Bodies :
        /\ Screen(body) = "predict"
        /\ data' = body
        /\ lat' = ToFloat(body.items["latitude"]).n
        /\ lon' = ToFloat(body.items["longitude"]).n
    /\ FreshRequest
    /\ response' = Nothing
    /\ responded' = 0
    /\ pc' = "fetch"
    /\ UNCHANGED <<predictor, loads, lastFallback>>
    /\ UNCHANGED <<loginVars, fnVars>>

\* The next call of the dict literal, if any is left.
NextKey == CallOrder[Cardinality(DOMAIN fetched) + 1]

\* Faulty variant of Call: a failed request is sent a second time before the
\* fallback is taken.
CallWithRetry(key, r) ==
    /\ resp' = [k \in DOMAIN resp \cup {key} |-> IF k = key THEN r ELSE resp[k]]
    /\ issued' = [issued EXCEPT ![key] = IF r.kind = "error" THEN @ + 2 ELSE @ + 1]
    /\ fetched' = Evaluate(fetched, key, lat, lon, r)
    /\ UNCHANGED <<response, responded, pc>>
    /\ UNCHANGED <<predictor, loads, data, lat, lon, features, X, lastFallback>>
    /\ UNCHANGED <<loginVars, fnVars>>

\* One helper call: the request goes out once, its outcome r comes back, the
\* helper returns.  A helper that raised would end the request in the
\* except branch of predict_hmpi.
Call(key, r) ==
    /\ resp' = [k \in DOMAIN resp \cup {key} |-> IF k = key THEN r ELSE resp[k]]
    /\ issued' = [issued EXCEPT ![key] = @ + 1]
    /\ IF Fetch(key, lat, lon, r) = Raised
       THEN /\ fetched' = fetched
            /\ response' = PredictionFailed("source")
            /\ responded' = responded + 1
            /\ pc' = "idle"
       ELSE /\ fetched' = Evaluate(fetched, key, lat, lon, r)
            /\ UNCHANGED <<response, responded, pc>>
    /\ UNCHANGED <<predictor, loads, data, lat, lon, features, X, lastFallback>>
    /\ UNCHANGED <<loginVars, fnVars>>

CallNearestDistance ==
    /\ pc = "fetch"
    /\ Cardinality(DOMAIN fetched) < Len(DistanceKeys)
    /\ \E r \in OverpassResponses : Call(NextKey, r)

CallRainfall ==
    /\ pc = "fetch"
    /\ Cardinality(DOMAIN fetched) < Len(CallOrder)
    /\ NextKey = "annual_precip_mm"
    /\ \E r \in RainfallResponses : Call(NextKey, r)

CallPopulationDensity ==
    /\ pc = "fetch"
    /\ Cardinality(DOMAIN fetched) < Len(CallOrder)
    /\ NextKey = "population_density_per_km2"
    /\ \E r \in RasterResponses : Call(NextKey, r)

CallElevation ==
    /\ pc = "fetch"
    /\ Cardinality(DOMAIN fetched) < Len(CallOrder)
    /\ NextKey = "elevation_m"
    /\ \E r \in ElevationResponses : Call(NextKey, r)

\* build_features, from the end of the dict literal to its return
BuildFrame ==
    /\ pc = "fetch"
    /\ DOMAIN fetched = ExternalKeys
    /\ features' = FeatureDict(lat, lon, fetched)
    /\ X' = AlignColumns(FeatureDict(lat, lon, fetched), predictor.feature_columns)
    /\ pc' = "predict"
    /\ UNCHANGED <<predictor, loads, data, lat, lon, fetched, resp, issued,
                   response, responded, lastFallback>>
    /\ UNCHANGED <<loginVars, fnVars>>

AllUnavailable == \A k \in ExternalKeys : resp[k] = Err

\* get_prediction: round(float(self.model.predict(X)[0]), 2), and the rest of
\* predict_hmpi: the 200 response, or the except branch when predict raised
ModelPredict ==
    /\ pc = "predict"
    /\ \/ \E p \in ModelOutputs :
            response' = [status |-> 200, latitude |-> lat, longitude |-> lon,
                         predicted_hmpi |-> Round2(p)]
       \/ response' = PredictionFailed("model")
    /\ responded' = responded + 1
    /\ lastFallback' = IF AllUnavailable
                       THEN [lat |-> lat, lon |-> lon, X |-> X]
                       ELSE lastFallback
    /\ pc' = "idle"
    \* the locals of build_features and get_prediction end with the call
    /\ fetched' = NoVals
    /\ resp' = NoVals
    /\ features' = Nothing
    /\ X' = Nothing
    /\ UNCHANGED <<predictor, loads, data, lat, lon, issued>>
    /\ UNCHANGED <<loginVars, fnVars>>

-----------------------------------------------------------------------------
(* backend/app.py: the login form and the gated pages *)

MaxTrail == 3

Usernames == { PyStr("admin"), PyStr("guest"), PyNone }
Passwords == { PyStr("1234"), PyStr("0000"), PyNone }

NoSession == [k \in {} |-> ""]

Render(template) == [status |-> 200, template |-> template]
Redirect(endpoint) == [status |-> 302, location |-> endpoint]

InitLogin ==
    /\ session = NoSession
    /\ trail = << >>
    /\ page = Nothing

Visit(req) ==
    /\ Len(trail) < MaxTrail
    /\ trail' = Append(trail, req)

\* route_index, GET
IndexGet ==
    /\ Visit([route |-> "/", method |-> "GET"])
    /\ page' = Render("index.html")
    /\ UNCHANGED session
    /\ UNCHANGED <<apiVars, fnVars>>

\* Faulty variant of IndexPost: `or` in place of `and` in the credential test.
IndexPostEitherField ==
    /\ \E username \in Usernames, password \in Passwords :
        /\ Visit([route |-> "/", method |-> "POST",
                  username |-> username, password |-> password])
        /\ IF username = PyStr("admin") \/ password = PyStr("1234")
           THEN /\ session' = [k \in DOMAIN session \cup {"user"} |->
                                 IF k = "user" THEN "admin" ELSE session[k]]
                /\ page' = Redirect("route_dashboard")
           ELSE /\ session' = session
                /\ page' = Render("index.html")
    /\ UNCHANGED <<apiVars, fnVars>>

\* route_index, POST: request.form.get gives None for a field not sent
IndexPost ==
    /\ \E username \in Usernames, password \in Passwords :
        /\ Visit([route |-> "/", method |-> "POST",
                  username |-> username, password |-> password])
        /\ IF username = PyStr("admin") /\ password = PyStr("1234")
           THEN /\ session' = [k \in DOMAIN session \cup {"user"} |->
                                 IF k = "user" THEN username.s ELSE session[k]]
                /\ page' = Redirect("route_dashboard")
           ELSE /\ session' = session
                /\ page' = Render("index.html")
    /\ UNCHANGED <<apiVars, fnVars>>

\* route_dashboard, route_analytics, route_admin, route_station
Gated(route, template) ==
    /\ Visit([route |-> route, method |-> "GET"])
    /\ page' = IF "user" \notin DOMAIN session
               THEN Redirect("route_index")
               ELSE Render(template)
    /\ UNCHANGED session
    /\ UNCHANGED <<apiVars, fnVars>>

route_dashboard == Gated("/dashboard", "dataentry.html")
route_analytics == Gated("/analytics", "analytics.html")
route_admin     == Gated("/admin", "admin.html")
route_station   == Gated("/station", "station.html")

\* session.pop("user", None)
logout ==
    /\ Visit([route |-> "/logout", method |-> "GET"])
    /\ session' = [k \in DOMAIN session \ {"user"} |-> session[k]]
    /\ page' = Redirect("route_index")
    /\ UNCHANGED <<apiVars, fnVars>>

-----------------------------------------------------------------------------
(* _get_nearest_distance on its own, over every short element list *)

MaxElems == 3

ElementPool ==
    { Node(286, 772), Node(287, 772), Node(290, 775), Way(286, 772),
      [type |-> "node", lat |-> 285] }

RECURSIVE SeqsUpTo(_, _)
SeqsUpTo(S, n) ==
    IF n = 0 THEN { << >> }
    ELSE LET shorter == SeqsUpTo(S, n - 1)
         IN  shorter \cup { Append(q, e) : q \in shorter, e \in S }

NearestInputs ==
    { [lat |-> p[1], lon |-> p[2], key |-> DistanceKeys[i], r |-> r] :
        p \in { <<286, 772>>, <<191, 728>> },
        i \in 1..Len(DistanceKeys),
        r \in { Err, Json([remark |-> "runtime error"]) }
              \cup { Json([elements |-> q]) : q \in SeqsUpTo(ElementPool, MaxElems) } }

InitNearest ==
    /\ nq \in NearestInputs
    /\ nres = Nothing

ApplyNearest ==
    /\ nres = Nothing
    /\ nres' = _get_nearest_distance(nq.lat, nq.lon, nq.r, nq.key)
    /\ UNCHANGED nq
    /\ UNCHANGED <<apiVars, loginVars>>

-----------------------------------------------------------------------------
(* Specifications *)

Init ==
    /\ InitApi
    /\ InitLogin
    /\ nq = Nothing
    /\ nres = Nothing

Next ==
    \/ LoadPredictor
    \/ PredictUnavailable
    \/ PredictRejected
    \/ PredictAccepted
    \/ CallNearestDistance
    \/ CallRainfall
    \/ CallPopulationDensity
    \/ CallElevation
    \/ BuildFrame
    \/ ModelPredict

Spec == Init /\ [][Next]_vars

NextLogin ==
    \/ IndexGet
    \/ IndexPost
    \/ route_dashboard
    \/ route_analytics
    \/ route_admin
    \/ route_station
    \/ logout

SpecLogin == Init /\ [][NextLogin]_vars

NextNearest == ApplyNearest

InitFn == InitApi /\ InitLogin /\ InitNearest

SpecNearest == InitFn /\ [][NextNearest]_vars

-----------------------------------------------------------------------------
(* Properties of the feature assembly *)

BuildReturned == pc = "predict"

\* the entries of the returned frame under column k
ValuesOf(k) == { X[i].val : i \in { j \in 1..Len(X) : X[j].col = k } }

\* a call that raised inside the helper's try: no answer at all, or an answer
\* without the field the helper reads
CallFailed(k) ==
    resp[k] \in { Err,
                  Json([results |-> << [latitude |-> PyNum(286)] >>]),
                  Json([properties |-> [parameter |-> [T2M |-> [ANN |-> PyNum(250)]]]]) }

\* C1: a feature whose source call failed has its DEFAULTS constant in the
\* dict and in the returned frame, and no failing call makes build_features
\* fail: no request is answered with an exception that came out of a helper.
C1_FailedCallGivesDefault ==
    /\ BuildReturned =>
         \A k \in ExternalKeys :
            CallFailed(k) => /\ features[k] = DEFAULTS[k]
                             /\ ValuesOf(k) \subseteq { DEFAULTS[k] }
    /\ response # PredictionFailed("source")

C1_Witness ==
    /\ BuildReturned
    /\ resp["elevation_m"] = Err
    /\ resp["dist_to_nearest_landfill_km"] = Err
    /\ resp["annual_precip_mm"] # Err
    /\ ValuesOf("elevation_m") = { DEFAULTS["elevation_m"] }

\* C2: the returned frame has exactly the columns of the loaded list, in its
\* order; a listed column is the assembled value when the assembly produced
\* it and 0 when it did not.
C2_FrameHasTrainingColumns ==
    BuildReturned =>
        /\ Len(X) = Len(predictor.feature_columns)
        /\ \A i \in 1..Len(X) :
            /\ X[i].col = predictor.feature_columns[i]
            /\ X[i].val = IF X[i].col \in AssembledKeys
                          THEN features[X[i].col] ELSE PyNum(0)

C2_Witness ==
    /\ BuildReturned
    /\ predictor.feature_columns = OtherColumns
    /\ resp["elevation_m"] = Err
    /\ resp["dist_to_nearest_landfill_km"] # Err
    /\ \E i \in 1..Len(X) : X[i].col = "soil_type_sandy" /\ X[i].val = PyNum(0)

\* C3: every entry of the returned frame is a number.
C3_EveryEntryIsNumber ==
    BuildReturned => \A i \in 1..Len(X) : IsNumber(X[i].val)

\* the frame build_features returns for (lat, lon) when no source answers
FallbackFrame(plat, plon, cols) ==
    [ i \in 1..Len(cols) |->
        [ col |-> cols[i],
          val |-> IF cols[i] = "latitude" THEN PyNum(plat)
                  ELSE IF cols[i] = "longitude" THEN PyNum(plon)
                  ELSE IF cols[i] \in DOMAIN DEFAULTS THEN DEFAULTS[cols[i]]
                  ELSE PyNum(0) ] ]

\* C4: with every source unavailable the returned frame is the inputs, the
\* DEFAULTS constants and the 0 fill, whatever the requests before were, and
\* equals the frame an earlier all-unavailable build returned for the same
\* (lat, lon).
C4_FallbackIsDeterministic ==
    (BuildReturned /\ AllUnavailable) =>
        /\ X = FallbackFrame(lat, lon, predictor.feature_columns)
        /\ (lastFallback # Nothing /\ lastFallback.lat = lat
                /\ lastFallback.lon = lon) => lastFallback.X = X

C4_Witness ==
    /\ BuildReturned
    /\ AllUnavailable
    /\ lastFallback # Nothing
    /\ lastFallback.lat = lat
    /\ lastFallback.lon = lon

\* the dict literal evaluated in another order of its calls
RECURSIVE EvaluateAll(_, _, _, _, _)
EvaluateAll(order, vals, plat, plon, rs) ==
    IF order = << >> THEN vals
    ELSE EvaluateAll(Tail(order),
                     Evaluate(vals, Head(order), plat, plon, rs[Head(order)]),
                     plat, plon, rs)

Reverse(q) == [ i \in 1..Len(q) |-> q[Len(q) + 1 - i] ]

OtherOrders ==
    { Reverse(CallOrder),
      SubSeq(CallOrder, 5, 7) \o SubSeq(CallOrder, 1, 4),
      << CallOrder[2], CallOrder[7], CallOrder[1], CallOrder[5],
         CallOrder[4], CallOrder[6], CallOrder[3] >> }

\* C5: at every point of the assembly each value obtained so far is the
\* helper's result on (lat, lon) and its own source's outcome, and the
\* finished assembly is what any other order of the seven calls gives.
C5_CallsAreIndependent ==
    /\ pc \in {"fetch", "predict"} =>
         \A k \in DOMAIN fetched : fetched[k] = Fetch(k, lat, lon, resp[k])
    /\ BuildReturned =>
         \A order \in OtherOrders :
            EvaluateAll(order, NoVals, lat, lon, resp) = fetched

C5_Witness ==
    /\ BuildReturned
    /\ resp["dist_to_nearest_industrial_area_km"] # Err
    /\ resp["dist_to_nearest_drain_outfall_km"] = Err
    /\ resp["annual_precip_mm"] = Err
    /\ resp["elevation_m"] # Err
    /\ fetched["elevation_m"] # DEFAULTS["elevation_m"]

RECURSIVE SumOver(_, _)
SumOver(f, S) ==
    IF S = {} THEN 0
    ELSE LET k == CHOOSE e \in S : TRUE IN f[k] + SumOver(f, S \ {k})

\* C6: within one prediction a source is asked at most once, exactly the
\* sources already answered have been asked, failed or not, and a finished
\* assembly has asked each of the seven once.
C6_NoRetries ==
    /\ \A k \in ExternalKeys : issued[k] <= 1
    /\ pc \in {"fetch", "predict"} =>
         \A k \in ExternalKeys : issued[k] = IF k \in DOMAIN resp THEN 1 ELSE 0
    /\ BuildReturned => SumOver(issued, ExternalKeys) = 7

C6_Witness ==
    /\ BuildReturned
    /\ resp["dist_to_nearest_industrial_area_km"] = Err
    /\ resp["elevation_m"] = Err
    /\ SumOver(issued, ExternalKeys) = 7

-----------------------------------------------------------------------------
(* Properties of the service *)

\* C7: the pipeline is loaded once, at start-up; after start-up no step
\* changes the predictor handle; with a failed load every request is
\* answered 500 with an error body, no source is asked and the model is
\* never reached.
C7_LoadedOnceAtStartup ==
    /\ [](/\ loads <= 1
          /\ pc # "boot" => loads = 1
          /\ predictor = PyNone =>
                /\ pc = "idle"
                /\ issued = NoCalls
                /\ response # Nothing =>
                      response.status = 500 /\ "error" \in DOMAIN response)
    /\ [][pc # "boot" => predictor' = predictor]_vars

C7_Witness ==
    /\ predictor = PyNone
    /\ responded = 1
    /\ response.status = 500

\* the body is absent, empty, or has no latitude or no longitude key
LacksCoordinates(body) ==
    /\ body # Raised
    /\ \/ ~Truthy(body)
       \/ body.tag # "dict"
       \/ ~({"latitude", "longitude"} \subseteq DOMAIN body.items)

\* C9: get_prediction runs only with a loaded predictor and a body holding
\* both keys; a body that is absent, empty or lacks a key is answered 400
\* with an error body and no source is asked; a request gets one response,
\* of status 200, 400 or 500.
C9_OnlyWellFormedRequestsPredict ==
    /\ pc \in {"fetch", "predict"} =>
          /\ predictor # PyNone
          /\ data.tag = "dict"
          /\ {"latitude", "longitude"} \subseteq DOMAIN data.items
          /\ responded = 0
    /\ (pc = "idle" /\ data # Nothing /\ LacksCoordinates(data)) =>
          /\ response.status = 400
          /\ "error" \in DOMAIN response
          /\ issued = NoCalls
    /\ responded <= 1
    /\ (pc = "idle" /\ response # Nothing) =>
          responded = 1 /\ response.status \in {200, 400, 500}

-----------------------------------------------------------------------------
(* Properties of the login gate *)

IsLogin(req) ==
    /\ req.route = "/" /\ req.method = "POST"
    /\ req.username = PyStr("admin") /\ req.password = PyStr("1234")

IsLogout(req) == req.route = "/logout"

\* the most recent of {successful login, logout} in the trail is a login
LoginIsLatest ==
    \E i \in 1..Len(trail) :
        /\ IsLogin(trail[i])
        /\ \A j \in (i + 1)..Len(trail) : ~IsLogout(trail[j])

TemplateOf(route) ==
    IF route = "/dashboard" THEN "dataentry.html"
    ELSE IF route = "/analytics" THEN "analytics.html"
    ELSE IF route = "/admin" THEN "admin.html"
    ELSE "station.html"

GatedRoutes == { "/dashboard", "/analytics", "/admin", "/station" }

\* C10: the session holds a user exactly when the most recent of
\* {successful login, logout} is the login, and a gated route renders its
\* page when the session holds a user and redirects to the login page when
\* it does not.
C10_PagesAreGated ==
    /\ ("user" \in DOMAIN session) <=> LoginIsLatest
    /\ (trail # << >> /\ trail[Len(trail)].route \in GatedRoutes) =>
          page = IF LoginIsLatest
                 THEN Render(TemplateOf(trail[Len(trail)].route))
                 ELSE Redirect("route_index")

C10_Witness ==
    /\ Len(trail) = 3
    /\ IsLogin(trail[1])
    /\ trail[2].route = "/" /\ trail[2].method = "POST" /\ ~IsLogin(trail[2])
    /\ trail[3].route = "/admin"
    /\ page = Render("admin.html")

-----------------------------------------------------------------------------
(* Properties of _get_nearest_distance *)

\* the elements carrying a top-level lat and a top-level lon
Qualifying(r) ==
    IF r.kind = "error" \/ "elements" \notin DOMAIN r.data THEN {}
    ELSE { i \in 1..Len(r.data.elements) :
             {"lat", "lon"} \subseteq DOMAIN r.data.elements[i] }

\* squared distance in degrees (hundredths) from the query point to element i
SquaredDegrees(q, i) ==
    LET e == q.r.data.elements[i]
    IN  (q.lat - e.lat) * (q.lat - e.lat) + (q.lon - e.lon) * (q.lon - e.lon)

\* C8: with a qualifying element the result is 111 times the least planar
\* distance to a qualifying element (to the tenth of a kilometre below);
\* with none it is the DEFAULTS constant of the key.
C8_NearestFeature ==
    nres # Nothing =>
        IF Qualifying(nq.r) = {}
        THEN nres = DEFAULTS[nq.key]
        ELSE /\ IsNumber(nres)
             /\ \E i \in Qualifying(nq.r) :
                   /\ \A j \in Qualifying(nq.r) :
                         SquaredDegrees(nq, i) <= SquaredDegrees(nq, j)
                   /\ nres.n * nres.n <= 111 * 111 * SquaredDegrees(nq, i)
                   /\ 111 * 111 * SquaredDegrees(nq, i) < (nres.n + 1) * (nres.n + 1)

C8_Witness ==
    /\ nres # Nothing
    /\ nq.r.kind = "json"
    /\ "elements" \in DOMAIN nq.r.data
    /\ Len(nq.r.data.elements) = 3
    /\ Cardinality(Qualifying(nq.r)) = 2
    /\ nq.r.data.elements[1] = Node(290, 775)
    /\ nq.r.data.elements[3] = Node(287, 772)
    /\ nq.lat = 286
    /\ nres = PyNum(111)

-----------------------------------------------------------------------------
(* Properties of the indicator features *)

\* C11: whatever the coordinates and the outcomes of the sources, the dict of
\* build_features holds 0 under land_use_category_estuary and 1 under
\* soil_type_clay, and the returned frame holds these values in those columns
\* when the column list has them.
C11_IndicatorsAreConstant ==
    BuildReturned =>
        /\ features["land_use_category_estuary"] = PyNum(0)
        /\ features["soil_type_clay"] = PyNum(10)
        /\ ValuesOf("land_use_category_estuary") \subseteq { PyNum(0) }
        /\ ValuesOf("soil_type_clay") \subseteq { PyNum(10) }

C11_Witness ==
    /\ BuildReturned
    /\ lat = 191
    /\ resp["elevation_m"] # Err
    /\ resp["dist_to_nearest_industrial_area_km"] = Err
    /\ ValuesOf("land_use_category_estuary") = { PyNum(0) }
    /\ ValuesOf("soil_type_clay") = { PyNum(10) }

====
